---- MODULE Spec2Model ----
(***************************************************************************)
(* A model of progsnap.py: the TextDocument replay buffer, the tagged      *)
(* record scanner (_scan / TagHandler), the lazily loaded WorkHistory and  *)
(* its event ordering (compare_events under list.sort).                    *)
(*                                                                         *)
(* Text is a sequence of one-character strings; offsets are 0-based as in  *)
(* Python, so the character at offset i of s is s[i+1].                    *)
(***************************************************************************)
EXTENDS Integers, Sequences, FiniteSets, TLC

VARIABLES
    text,       \* TextDocument._text
    docCall,    \* the last TextDocument call: arguments, text before, outcome
    file,       \* the lines of the backing file, as decoded JSON objects
    sortwh,     \* WorkHistory._sortworkhistory
    events,     \* WorkHistory._events
    loaded,     \* WorkHistory._loaded
    scans,      \* number of times the backing file has been scanned
    whCall,     \* the last WorkHistory call: operation, argument, result
    evlist,     \* a list of events handed to list.sort
    sortCall,   \* the last sort call: input and output
    props,      \* Dataset._props
    scanCall,   \* the last _scan run: handler calls made, outcome, line number
    storage,    \* the directory or archive a Dataset is read from
    dataset,    \* the Dataset's lists and indices, and how its load ended
    dsCall,     \* the last Dataset accessor call: arguments, result
    replay      \* the replay loop's last_text, first_fulltext and outcome

vars == <<text, docCall, file, sortwh, events, loaded, scans, whCall,
          evlist, sortCall, props, scanCall, storage, dataset, dsCall, replay>>

docVars == <<text, docCall>>
whVars == <<file, sortwh, events, loaded, scans, whCall>>
sortVars == <<evlist, sortCall>>
dsVars == <<props, scanCall, storage, dataset, dsCall>>
replayVars == <<replay>>

\* ------------------------------------------------------------------------
\* Bounds
\* ------------------------------------------------------------------------
MaxLen == 3     \* longest document text
MaxText == 2    \* longest text argument of an edit
MaxRow == 2     \* largest row argument
MaxCol == 1     \* largest column argument
MaxId == 2      \* largest editid
MaxTs == 3      \* largest timestamp (ms)
MaxEvents == 3  \* longest event list handed to the sort
MaxSorts == 2   \* number of times a list is sorted
MaxLines == 2   \* longest file
MaxScans == 2   \* number of times a file is scanned
MaxDsLines == 3
MaxReplay == 3      \* Edit events in a replayed work history \* longest dataset.txt

NL == "\n"
Chars == {"a", NL}

Min(a, b) == IF a < b THEN a ELSE b

Strings(n) == UNION {[1..k -> Chars] : k \in 0..n}

None == "None"

\* ------------------------------------------------------------------------
\* Python string primitives
\* ------------------------------------------------------------------------

\* s.find(c, pos): the least offset >= pos holding c, or -1
find(s, c, pos) ==
    IF \E i \in pos..(Len(s) - 1) : s[i + 1] = c
    THEN CHOOSE i \in pos..(Len(s) - 1) :
            /\ s[i + 1] = c
            /\ \A j \in pos..(i - 1) : s[j + 1] # c
    ELSE -1

\* s[a:b] for 0 <= a (the end is clipped to the length, as a slice is)
slice(s, a, b) == SubSeq(s, a + 1, Min(b, Len(s)))

\* s[a:]
sliceFrom(s, a) == SubSeq(s, a + 1, Len(s))

\* s.count(c)
count(s, c) == Cardinality({i \in 1..Len(s) : s[i] = c})

\* s.endswith(c) for a one-character c
endswith(s, c) == Len(s) > 0 /\ s[Len(s)] = c

\* ------------------------------------------------------------------------
\* TextDocument
\* ------------------------------------------------------------------------

\* _line_chunks(text): the list of chunks the generator yields
RECURSIVE line_chunks_from(_, _)
line_chunks_from(s, pos) ==
    IF pos < Len(s)
    THEN LET nextnl == find(s, NL, pos)
         IN IF nextnl < 0
            THEN <<sliceFrom(s, pos)>>
            ELSE <<slice(s, pos, nextnl + 1)>> \o line_chunks_from(s, nextnl + 1)
    ELSE <<>>

line_chunks(s) == line_chunks_from(s, 0)

get_num_lines(s) ==
    LET num_nl == count(s, NL)
    IN IF ~endswith(s, NL) THEN num_nl + 1 ELSE num_nl

\* get_line(index): the chunk, or the error
get_line(s, index) ==
    IF index \in 0..(Len(line_chunks(s)) - 1)
    THEN [err |-> None, line |-> line_chunks(s)[index + 1]]
    ELSE [err |-> "No such line", line |-> <<>>]

\* the while loop of _get_pos
RECURSIVE get_pos_loop(_, _, _, _)
get_pos_loop(s, row, atrow, pos) ==
    IF atrow < row
    THEN LET nextpos == find(s, NL, pos)
         IN IF nextpos < 0
            THEN [err |-> "No such line", pos |-> pos]
            ELSE get_pos_loop(s, row, atrow + 1, nextpos + 1)
    ELSE [err |-> None, pos |-> pos]

\* _get_pos with the bounds test written pos >= len: the end of the text is
\* rejected as a position
get_pos_strict(s, row, col) ==
    LET r == get_pos_loop(s, row, 0, 0)
    IN IF r.err # None
       THEN r
       ELSE IF r.pos + col >= Len(s)
            THEN [err |-> "out of bounds", pos |-> r.pos + col]
            ELSE [err |-> None, pos |-> r.pos + col]

get_pos(s, row, col) ==
    LET r == get_pos_loop(s, row, 0, 0)
    IN IF r.err # None
       THEN r
       ELSE IF r.pos + col > Len(s)
            THEN [err |-> "out of bounds", pos |-> r.pos + col]
            ELSE [err |-> None, pos |-> r.pos + col]

\* insert_at: the outcome and the text afterwards
insert_at(s, row, col, t) ==
    LET p == get_pos(s, row, col)
    IN IF p.err # None
       THEN [outcome |-> p.err, text |-> s]
       ELSE [outcome |-> "ok",
             text |-> slice(s, 0, p.pos) \o t \o sliceFrom(s, p.pos)]

VERIFY_DELETES == TRUE

\* delete_at that shortens the range for the missing final newline but still
\* expects the whole text
delete_at_untrimmed(s, row, col, t) ==
    LET p == get_pos(s, row, col)
    IN IF p.err # None
       THEN [outcome |-> p.err, text |-> s]
       ELSE LET endpos0 == p.pos + Len(t)
                quirk == endpos0 > Len(s) /\ endpos0 = Len(s) + 1 /\ endswith(t, NL)
                endpos == IF quirk THEN endpos0 - 1 ELSE endpos0
            IN IF endpos0 > Len(s) /\ ~quirk
               THEN [outcome |-> "Deletion beyond end", text |-> s]
               ELSE IF VERIFY_DELETES /\ slice(s, p.pos, endpos) # t
                    THEN [outcome |-> "Delete mismatch", text |-> s]
                    ELSE [outcome |-> "ok",
                          text |-> slice(s, 0, p.pos) \o sliceFrom(s, endpos)]

\* delete_at that lets any overlong delete ending in a newline through,
\* without the test that it is exactly one character too long
delete_at_anylen(s, row, col, t) ==
    LET p == get_pos(s, row, col)
    IN IF p.err # None
       THEN [outcome |-> p.err, text |-> s]
       ELSE LET endpos0 == p.pos + Len(t)
                quirk == endpos0 > Len(s) /\ endswith(t, NL)
                endpos == IF quirk THEN endpos0 - 1 ELSE endpos0
                t1 == IF quirk THEN slice(t, 0, Len(t) - 1) ELSE t
            IN IF endpos0 > Len(s) /\ ~quirk
               THEN [outcome |-> "Deletion beyond end", text |-> s]
               ELSE IF VERIFY_DELETES /\ slice(s, p.pos, endpos) # t1
                    THEN [outcome |-> "Delete mismatch", text |-> s]
                    ELSE [outcome |-> "ok",
                          text |-> slice(s, 0, p.pos) \o sliceFrom(s, endpos)]

\* delete_at that removes the range first and verifies afterwards
delete_at_eager(s, row, col, t) ==
    LET p == get_pos(s, row, col)
    IN IF p.err # None
       THEN [outcome |-> p.err, text |-> s]
       ELSE LET endpos0 == p.pos + Len(t)
                quirk == endpos0 > Len(s) /\ endpos0 = Len(s) + 1 /\ endswith(t, NL)
                endpos == IF quirk THEN endpos0 - 1 ELSE endpos0
                t1 == IF quirk THEN slice(t, 0, Len(t) - 1) ELSE t
                updated_text == slice(s, 0, p.pos) \o sliceFrom(s, endpos)
            IN IF endpos0 > Len(s) /\ ~quirk
               THEN [outcome |-> "Deletion beyond end", text |-> s]
               ELSE IF VERIFY_DELETES /\ slice(s, p.pos, endpos) # t1
                    THEN [outcome |-> "Delete mismatch", text |-> updated_text]
                    ELSE [outcome |-> "ok", text |-> updated_text]

\* delete_at: the outcome and the text afterwards
delete_at(s, row, col, t) ==
    LET p == get_pos(s, row, col)
    IN IF p.err # None
       THEN [outcome |-> p.err, text |-> s]
       ELSE LET endpos0 == p.pos + Len(t)
                quirk == endpos0 > Len(s) /\ endpos0 = Len(s) + 1 /\ endswith(t, NL)
                endpos == IF quirk THEN endpos0 - 1 ELSE endpos0
                t1 == IF quirk THEN slice(t, 0, Len(t) - 1) ELSE t
            IN IF endpos0 > Len(s) /\ ~quirk
               THEN [outcome |-> "Deletion beyond end", text |-> s]
               ELSE IF VERIFY_DELETES /\ slice(s, p.pos, endpos) # t1
                    THEN [outcome |-> "Delete mismatch", text |-> s]
                    ELSE [outcome |-> "ok",
                          text |-> slice(s, 0, p.pos) \o sliceFrom(s, endpos)]

\* The record of a TextDocument call
DocCall(op, row, col, arg, pre, outcome, num, line) ==
    [op |-> op, row |-> row, col |-> col, arg |-> arg, pre |-> pre,
     outcome |-> outcome, num |-> num, line |-> line]

NoDocCall == DocCall("none", 0, 0, <<>>, <<>>, "ok", 0, <<>>)

InsertAt ==
    \E row \in 0..MaxRow, col \in 0..MaxCol, t \in Strings(MaxText) :
        LET r == insert_at(text, row, col, t)
        IN /\ Len(text) + Len(t) <= MaxLen
           /\ text' = r.text
           /\ docCall' = DocCall("insert_at", row, col, t, text, r.outcome, 0, <<>>)
           /\ UNCHANGED <<whVars, sortVars, dsVars, replayVars>>

DeleteAt ==
    \E row \in 0..MaxRow, col \in 0..MaxCol, t \in Strings(MaxText) :
        LET r == delete_at(text, row, col, t)
        IN /\ text' = r.text
           /\ docCall' = DocCall("delete_at", row, col, t, text, r.outcome, 0, <<>>)
           /\ UNCHANGED <<whVars, sortVars, dsVars, replayVars>>

SetText ==
    \E t \in Strings(MaxText) :
        /\ text' = t
        /\ docCall' = DocCall("set_text", 0, 0, t, text, "ok", 0, <<>>)
        /\ UNCHANGED <<whVars, sortVars, dsVars, replayVars>>

GetNumLines ==
    /\ docCall' = DocCall("get_num_lines", 0, 0, <<>>, text, "ok",
                          get_num_lines(text), <<>>)
    /\ UNCHANGED <<text, whVars, sortVars, dsVars, replayVars>>

GetLine ==
    \E index \in 0..MaxRow :
        LET r == get_line(text, index)
        IN /\ docCall' = DocCall("get_line", index, 0, <<>>, text,
                                 IF r.err = None THEN "ok" ELSE r.err, 0, r.line)
           /\ UNCHANGED <<text, whVars, sortVars, dsVars, replayVars>>

\* ------------------------------------------------------------------------
\* EditApplicator
\* ------------------------------------------------------------------------

\* an Edit as the applicator reads it: its type, its start (when it has
\* one) and its text
EditOf(type, has_start, row, col, t) ==
    [type |-> type, has_start |-> has_start, row |-> row, col |-> col, text |-> t]

\* EditApplicator.apply on a document holding s: the outcome and the text
\* afterwards; edit.start() raises when the edit has no start
apply(edit, s) ==
    IF edit.type = "insert"
    THEN IF ~edit.has_start
         THEN [outcome |-> "No such property", text |-> s]
         ELSE insert_at(s, edit.row, edit.col, edit.text)
    ELSE IF edit.type = "delete"
         THEN IF ~edit.has_start
              THEN [outcome |-> "No such property", text |-> s]
              ELSE delete_at(s, edit.row, edit.col, edit.text)
         ELSE IF edit.type = "fulltext"
              THEN [outcome |-> "ok", text |-> edit.text]
              ELSE [outcome |-> "Don't know how to handle edit type", text |-> s]

EditTypes == {"insert", "delete", "fulltext", "paste"}

\* the edits handed to the applicator
Edits ==
    {EditOf(type, TRUE, row, col, t) :
        type \in {"insert", "delete"}, row \in 0..MaxRow, col \in 0..MaxCol,
        t \in Strings(MaxText)}
    \cup {EditOf("fulltext", FALSE, 0, 0, t) : t \in Strings(MaxText)}
    \cup {EditOf(type, FALSE, 0, 0, t) :
            type \in EditTypes \ {"fulltext"}, t \in Strings(1)}

ApplyOp(type) ==
    CASE type = "insert" -> "apply_insert"
      [] type = "delete" -> "apply_delete"
      [] type = "fulltext" -> "apply_fulltext"
      [] OTHER -> "apply_unsupported"

ApplyEdit ==
    \E edit \in Edits :
        \E r \in {apply(edit, text)} :
           /\ Len(r.text) <= MaxLen
           /\ text' = r.text
           /\ docCall' = DocCall(ApplyOp(edit.type), edit.row, edit.col,
                                 edit.text, text, r.outcome, 0, <<>>)
           /\ UNCHANGED <<whVars, sortVars, dsVars, replayVars>>

\* ------------------------------------------------------------------------
\* examples/replay_edits.py: the replay loop over one work history
\* ------------------------------------------------------------------------

\* a Python variable holding None or a string
NoText == [isNone |-> TRUE, v |-> <<>>]
SomeText(t) == [isNone |-> FALSE, v |-> t]

\* the truth value Python gives it: None and "" are false
truthy(x) == ~x.isNone /\ x.v # <<>>

match_text(actual, expected) ==
    \/ actual = expected
    \/ actual \o <<NL>> = expected
    \/ actual = expected \o <<NL>>

\* the Edit events of the replayed history: fulltext edits, inserts and
\* deletes at the start of the document, and edits of an unsupported type
ReplayEdits ==
    {e \in Edits : e.type \in {"fulltext", "paste"}
                       \/ (e.has_start /\ e.row = 0 /\ e.col = 0)}

\* one pass of the loop body for an Edit event; an error of apply or a
\* synchronization fault ends the replay
ReplayEdit ==
    /\ replay.outcome = "running"
    /\ replay.edits < MaxReplay
    /\ \E evt \in ReplayEdits :
        LET first_fulltext ==
                IF ~truthy(replay.first_fulltext) /\ evt.type = "fulltext"
                THEN SomeText(evt.text)
                ELSE replay.first_fulltext
            r == apply(evt, text)
            checked == evt.type = "fulltext" /\ truthy(replay.last_text)
            matches == match_text(replay.last_text.v, r.text)
            matches_first_fulltext ==
                truthy(first_fulltext) /\ match_text(first_fulltext.v, r.text)
            fault == checked /\ ~(matches \/ matches_first_fulltext)
        IN /\ Len(r.text) <= MaxLen
           /\ text' = r.text
           /\ replay' =
                [last_text |-> IF r.outcome = "ok" /\ ~fault
                               THEN SomeText(r.text) ELSE replay.last_text,
                 first_fulltext |-> first_fulltext,
                 outcome |-> IF r.outcome # "ok" THEN r.outcome
                             ELSE IF fault THEN "Fulltext not in sync"
                             ELSE "running",
                 edits |-> replay.edits + 1,
                 \* the text of the first fulltext Edit of the sequence
                 first |-> IF replay.first.isNone /\ evt.type = "fulltext"
                           THEN SomeText(evt.text) ELSE replay.first,
                 step |-> [type |-> evt.type, text |-> evt.text, pre |-> text]]
           /\ UNCHANGED <<docCall, whVars, sortVars, dsVars>>

\* ------------------------------------------------------------------------
\* TextDocument: the terms the properties are stated in
\* ------------------------------------------------------------------------

\* the offsets of the newlines of s
NewlineOffsets(s) == {i \in 0..(Len(s) - 1) : s[i + 1] = NL}

\* s has a row-th line start: row 0, or at least row newlines
HasRow(s, row) == Cardinality(NewlineOffsets(s)) >= row

\* the offset just after the row-th newline of s, or 0 for row 0
RowStart(s, row) ==
    IF row = 0
    THEN 0
    ELSE 1 + CHOOSE i \in NewlineOffsets(s) :
                 Cardinality({j \in NewlineOffsets(s) : j < i}) = row - 1

\* the characters of s at offsets a .. b-1
Range(s, a, b) == [k \in 1..(b - a) |-> s[a + k]]

\* s without its last character
DropLast(s) == [k \in 1..(Len(s) - 1) |-> s[k]]

\* the trailing-newline exception applies to a delete of t ending at end0
Exception(s, end0, t) == end0 = Len(s) + 1 /\ Len(t) > 0 /\ t[Len(t)] = NL

\* the start of the range of the last call, when its position resolves
CallResolves ==
    /\ HasRow(docCall.pre, docCall.row)
    /\ RowStart(docCall.pre, docCall.row) + docCall.col <= Len(docCall.pre)
CallStart == RowStart(docCall.pre, docCall.row) + docCall.col
CallEnd0 == CallStart + Len(docCall.arg)
CallException == Exception(docCall.pre, CallEnd0, docCall.arg)
CallEnd == IF CallException THEN CallEnd0 - 1 ELSE CallEnd0
CallExpected == IF CallException THEN DropLast(docCall.arg) ELSE docCall.arg

\* C1: a delete ends in 'delete mismatch' exactly when its position
\* resolves, its range [start, end) after the trailing-newline exception
\* lies in the text, and the text in that range differs from the expected
\* text after the exception.
C1_DeleteMismatchIff ==
    docCall.op = "delete_at" =>
        ((docCall.outcome = "Delete mismatch")
            <=> (/\ CallResolves
                 /\ CallEnd <= Len(docCall.pre)
                 /\ Range(docCall.pre, CallStart, CallEnd) # CallExpected))

\* a mismatch found after the exception shortened the range
C1_Witness ==
    /\ docCall.op = "delete_at"
    /\ docCall.outcome = "Delete mismatch"
    /\ CallResolves
    /\ CallException

\* C2: for a delete whose position resolves, with end = start + len(text):
\* if end is the length plus one and the text ends with a newline, the
\* delete goes on over [start, end-1) expecting the text without its final
\* newline; any other end beyond the length fails with 'deletion beyond
\* end'; an end within the length is handled with the whole range and the
\* whole text.
C2_TrailingNewlineException ==
    (docCall.op = "delete_at" /\ CallResolves) =>
        LET s == docCall.pre
            t == docCall.arg
        IN /\ CallException =>
                /\ docCall.outcome \in {"ok", "Delete mismatch"}
                /\ (docCall.outcome = "ok")
                       <=> (Range(s, CallStart, CallEnd0 - 1) = DropLast(t))
                /\ docCall.outcome = "ok" =>
                       text = Range(s, 0, CallStart)
                                \o Range(s, CallEnd0 - 1, Len(s))
           /\ (CallEnd0 > Len(s) /\ ~CallException) =>
                docCall.outcome = "Deletion beyond end"
           /\ CallEnd0 <= Len(s) =>
                /\ docCall.outcome \in {"ok", "Delete mismatch"}
                /\ (docCall.outcome = "ok") <=> (Range(s, CallStart, CallEnd0) = t)
                /\ docCall.outcome = "ok" =>
                       text = Range(s, 0, CallStart) \o Range(s, CallEnd0, Len(s))

\* deleting "a\n" at (1,0) from "\na" succeeds and leaves "\n"
C2_Witness ==
    /\ docCall.op = "delete_at"
    /\ docCall.pre = <<NL, "a">>
    /\ docCall.row = 1 /\ docCall.col = 0
    /\ docCall.arg = <<"a", NL>>
    /\ docCall.outcome = "ok"
    /\ text = <<NL>>

\* C3: insert_at fails with 'no such line' when the text has fewer than row
\* newlines, with 'out of bounds' when p = (offset after the row-th newline)
\* + col exceeds the length, and otherwise leaves old[0..p) + text + old[p..).
C3_InsertSplices ==
    docCall.op = "insert_at" =>
        LET s == docCall.pre
            p == RowStart(s, docCall.row) + docCall.col
        IN IF ~HasRow(s, docCall.row)
           THEN docCall.outcome = "No such line"
           ELSE IF p > Len(s)
                THEN docCall.outcome = "out of bounds"
                ELSE /\ docCall.outcome = "ok"
                     /\ text = Range(s, 0, p) \o docCall.arg \o Range(s, p, Len(s))
                     /\ Len(text) = Len(s) + Len(docCall.arg)

\* an insert at the end of the second line of a two-line text
C3_Witness ==
    /\ docCall.op = "insert_at"
    /\ docCall.outcome = "ok"
    /\ docCall.row = 1
    /\ docCall.col = 1
    /\ Len(docCall.arg) > 0
    /\ RowStart(docCall.pre, 1) + 1 = Len(docCall.pre)

\* the line count as stated: the newline-terminated lines, plus one when
\* there is text after the last newline
StatedLineCount(s) ==
    Cardinality(NewlineOffsets(s))
        + (IF Len(s) > 0 /\ s[Len(s)] # NL THEN 1 ELSE 0)

\* C4: get_num_lines() is the number of newline-terminated lines plus one
\* if there is text after the last newline; an empty text has zero lines.
C4_LineCount ==
    docCall.op = "get_num_lines" => docCall.num = StatedLineCount(docCall.pre)

\* ------------------------------------------------------------------------
\* Tagged records: _scan and TagHandler
\* ------------------------------------------------------------------------
\* A line is the decoded JSON object: whether it has 'tag' and 'value',
\* whether the tag is a str, and the two fields.
Line(has_tag, tag_is_str, tag, has_value, value) ==
    [has_tag |-> has_tag, tag_is_str |-> tag_is_str, tag |-> tag,
     has_value |-> has_value, value |-> value]

\* TagHandler.get_callback: the handler registered for the tag, else the
\* one registered for 'unknown'
get_callback(th, tagname) ==
    IF tagname \in DOMAIN th THEN th[tagname] ELSE th["unknown"]

\* _fix_ts: a number is kept; a string is parsed (seconds and microseconds)
\* into epoch milliseconds
fix_ts(ts) ==
    IF ts.kind = "num" THEN ts.n ELSE ts.n * 1000 + (ts.micro \div 1000)

\* Edit / Submission / Compilation / TestResults (value): the event, or the
\* error raised by self.ts() or by _fix_ts
construct(cls, value) ==
    IF value.ts.kind = "missing"
    THEN [raised |-> "No such property", evt |-> <<>>]
    ELSE IF value.ts.kind = "badstr"
         THEN [raised |-> "ValueError", evt |-> <<>>]
         ELSE [raised |-> None,
               evt |-> [cls |-> cls,
                        ts |-> fix_ts(value.ts),
                        has_editid |-> value.has_editid,
                        editid |-> value.editid,
                        has_snapids |-> value.has_snapids,
                        snapids |-> value.snapids,
                        has_snapid |-> value.has_snapid,
                        snapid |-> value.snapid]]

\* _HasProps.setprop on a dict held as a function
setprop(d, tag, value) ==
    [t \in (DOMAIN d) \cup {tag} |-> IF t = tag THEN value ELSE d[t]]

\* tv_callback(tag, value) for each registered callback; st holds the
\* objects the callbacks write to (the event list, the property dict)
call(cb, tag, value, st) ==
    IF cb = "ignore"
    THEN [raised |-> None, st |-> st]
    ELSE IF cb = "setprop"
         THEN [raised |-> None,
               st |-> [st EXCEPT !.props = setprop(st.props, tag, value)]]
         ELSE IF cb = "add_assignment"
         THEN [raised |-> None,
               st |-> [st EXCEPT !.assignments = Append(@, value.number)]]
         ELSE IF cb = "add_student"
         THEN [raised |-> None,
               st |-> [st EXCEPT !.students = Append(@, value)]]
         ELSE LET c == construct(cb, value)
              IN IF c.raised # None
                 THEN [raised |-> c.raised, st |-> st]
                 ELSE [raised |-> None,
                       st |-> [st EXCEPT !.events = Append(st.events, c.evt)]]

\* _scan reporting the number of the lines before the malformed one
RECURSIVE scan_from_offbyone(_, _, _, _, _)
scan_from_offbyone(f, th, line_no, st, calls) ==
    IF line_no >= Len(f)
    THEN [outcome |-> "ok", line_no |-> line_no, st |-> st, calls |-> calls]
    ELSE LET obj == f[line_no + 1]
         IN IF ~obj.has_tag \/ ~obj.has_value \/ ~obj.tag_is_str
            THEN [outcome |-> "Invalid data", line_no |-> line_no,
                  st |-> st, calls |-> calls]
            ELSE LET cb == get_callback(th, obj.tag)
                     r == call(cb, obj.tag, obj.value, st)
                     calls2 == Append(calls, [line |-> line_no + 1,
                                              tag |-> obj.tag, handler |-> cb])
                 IN IF r.raised # None
                    THEN [outcome |-> r.raised, line_no |-> line_no + 1,
                          st |-> r.st, calls |-> calls2]
                    ELSE scan_from_offbyone(f, th, line_no + 1, r.st, calls2)

\* the loop of _scan from the line after line_no; calls lists the handler
\* calls made so far
RECURSIVE scan_from(_, _, _, _, _)
scan_from(f, th, line_no, st, calls) ==
    IF line_no >= Len(f)
    THEN [outcome |-> "ok", line_no |-> line_no, st |-> st, calls |-> calls]
    ELSE LET n == line_no + 1
             obj == f[n]
         IN IF ~obj.has_tag \/ ~obj.has_value \/ ~obj.tag_is_str
            THEN [outcome |-> "Invalid data", line_no |-> n,
                  st |-> st, calls |-> calls]
            ELSE LET cb == get_callback(th, obj.tag)
                     r == call(cb, obj.tag, obj.value, st)
                     calls2 == Append(calls, [line |-> n, tag |-> obj.tag,
                                              handler |-> cb])
                 IN IF r.raised # None
                    THEN [outcome |-> r.raised, line_no |-> n,
                          st |-> r.st, calls |-> calls2]
                    ELSE scan_from(f, th, n, r.st, calls2)

scan(f, th, st) == scan_from(f, th, 0, st, <<>>)

\* ------------------------------------------------------------------------
\* Event ordering: compare_events under list.sort
\* ------------------------------------------------------------------------
\* compare_events without the editid comparison
compare_events_ts(a, b) == a.ts - b.ts

compare_events(a, b) ==
    IF a.has_editid /\ b.has_editid /\ a.editid - b.editid # 0
    THEN a.editid - b.editid
    ELSE a.ts - b.ts

\* the < of functools.cmp_to_key(compare_events)
lt(a, b) == compare_events(a, b) < 0

\* count_run's scan: the 1-based index of the last element of the run that
\* starts at the first element, examining element i next
RECURSIVE run_end(_, _, _)
run_end(l, i, descending) ==
    IF i > Len(l)
    THEN i - 1
    ELSE IF descending
         THEN IF lt(l[i], l[i - 1]) THEN run_end(l, i + 1, descending) ELSE i - 1
         ELSE IF lt(l[i], l[i - 1]) THEN i - 1 ELSE run_end(l, i + 1, descending)

\* count_run taking a run of equal elements for a descending one
count_run_nonstrict(l) ==
    LET descending == ~lt(l[1], l[2])
    IN [n |-> run_end(l, 3, descending), descending |-> descending]

\* count_run: the length of the initial run and whether it is (strictly)
\* descending
count_run(l) ==
    LET descending == lt(l[2], l[1])
    IN [n |-> run_end(l, 3, descending), descending |-> descending]

\* reverse_slice on the first n elements
reverse_slice(l, n) ==
    [i \in 1..Len(l) |-> IF i <= n THEN l[n + 1 - i] ELSE l[i]]

\* binarysort's search for the place of pivot in l[lo..r) (0-based)
RECURSIVE bsearch(_, _, _, _)
bsearch(l, pivot, lo, r) ==
    IF lo < r
    THEN LET p == lo + ((r - lo) \div 2)
         IN IF lt(pivot, l[p + 1])
            THEN bsearch(l, pivot, lo, p)
            ELSE bsearch(l, pivot, p + 1, r)
    ELSE lo

\* binarysort: l[0..start) is sorted; insert the others one by one
RECURSIVE binarysort(_, _)
binarysort(l, start) ==
    IF start >= Len(l)
    THEN l
    ELSE LET pivot == l[start + 1]
             pos == bsearch(l, pivot, 0, start)
         IN binarysort(SubSeq(l, 1, pos) \o <<pivot>> \o SubSeq(l, pos + 1, start)
                           \o SubSeq(l, start + 2, Len(l)),
                       start + 1)

\* self._events.sort(key=cmp_to_key(compare_events)) for fewer than 64
\* events: one run extended by binary insertion
sort_events(l) ==
    IF Len(l) < 2
    THEN l
    ELSE LET run == count_run(l)
             l1 == IF run.descending THEN reverse_slice(l, run.n) ELSE l
         IN binarysort(l1, run.n)

\* ------------------------------------------------------------------------
\* WorkHistory
\* ------------------------------------------------------------------------

\* the TagHandler of _read_work_history: tag -> the class its callback
\* constructs and appends; 'unknown' is ignored
wh_th ==
    [t \in {"unknown", "edit", "submission", "compilation", "testresults"} |->
        CASE t = "unknown" -> "ignore"
          [] t = "edit" -> "Edit"
          [] t = "submission" -> "Submission"
          [] t = "compilation" -> "Compilation"
          [] t = "testresults" -> "TestResults"]

\* _read_work_history on the event list evs: the scan appends to the list
\* and, when it returns, the list is sorted if sorting was requested
read_work_history(evs, f, sortworkhistory) ==
    LET r == scan(f, wh_th, [events |-> evs, props |-> <<>>])
    IN IF r.outcome # "ok"
       THEN [outcome |-> r.outcome, events |-> r.st.events]
       ELSE [outcome |-> "ok",
             events |-> IF sortworkhistory
                        THEN sort_events(r.st.events)
                        ELSE r.st.events]

\* _load_events that scans on every call, whatever _loaded says
load_events_always(evs, isloaded, f, sortworkhistory) ==
    LET r == read_work_history(evs, f, sortworkhistory)
    IN [outcome |-> r.outcome, events |-> r.events,
        loaded |-> (r.outcome = "ok"), scanned |-> TRUE]

\* _load_events: the outcome, the list and the flag afterwards, and whether
\* the file was scanned
load_events(evs, isloaded, f, sortworkhistory) ==
    IF ~isloaded
    THEN LET r == read_work_history(evs, f, sortworkhistory)
         IN [outcome |-> r.outcome, events |-> r.events,
             loaded |-> (r.outcome = "ok"), scanned |-> TRUE]
    ELSE [outcome |-> "ok", events |-> evs, loaded |-> TRUE, scanned |-> FALSE]

\* the loop of find_edit_events_with_snapid over the events from index i
RECURSIVE find_edit_events_from(_, _, _)
find_edit_events_from(evs, i, snapid) ==
    IF i > Len(evs)
    THEN <<>>
    ELSE LET evt == evs[i]
             rest == find_edit_events_from(evs, i + 1, snapid)
         IN IF evt.cls = "Edit" /\ evt.has_snapids
               /\ (\E k \in 1..Len(evt.snapids) : evt.snapids[k] = snapid)
            THEN <<evt>> \o rest
            ELSE rest

find_edit_events_with_snapid(evs, snapid) == find_edit_events_from(evs, 1, snapid)

\* find_single_edit_event_with_snapid returning the first of several
\* candidates
find_single_first(evs, snapid) ==
    LET candidates == find_edit_events_with_snapid(evs, snapid)
    IN IF Len(candidates) = 0
       THEN [outcome |-> "ok", result |-> <<>>]
       ELSE [outcome |-> "ok", result |-> <<candidates[1]>>]

\* find_single_edit_event_with_snapid: result <<>> stands for None
find_single_edit_event_with_snapid(evs, snapid) ==
    LET candidates == find_edit_events_with_snapid(evs, snapid)
    IN IF Len(candidates) = 0
       THEN [outcome |-> "ok", result |-> <<>>]
       ELSE IF Len(candidates) = 1
            THEN [outcome |-> "ok", result |-> <<candidates[1]>>]
            ELSE [outcome |-> "multiple edit events", result |-> <<>>]

\* the loop of _find_event_with_snapid; evt.snapid() raises on an event of
\* the type that has no snapid
RECURSIVE find_event_from(_, _, _, _)
find_event_from(evs, i, evt_type, snapid) ==
    IF i > Len(evs)
    THEN [outcome |-> "ok", result |-> <<>>]
    ELSE LET evt == evs[i]
         IN IF evt.cls = evt_type
            THEN IF ~evt.has_snapid
                 THEN [outcome |-> "No such property", result |-> <<>>]
                 ELSE IF evt.snapid = snapid
                      THEN [outcome |-> "ok", result |-> <<evt>>]
                      ELSE find_event_from(evs, i + 1, evt_type, snapid)
            ELSE find_event_from(evs, i + 1, evt_type, snapid)

find_event_with_snapid(evs, evt_type, snapid) ==
    find_event_from(evs, 1, evt_type, snapid)

SnapIds == {"s1", "s2"}

\* every public call starts with _load_events; Lookup gives the call's own
\* outcome and result on the loaded list
WhCallStep(op, arg, ld, lookup) ==
    /\ (ld.scanned => scans < MaxScans)
    /\ events' = ld.events
    /\ loaded' = ld.loaded
    /\ scans' = IF ld.scanned THEN scans + 1 ELSE scans
    /\ whCall' = IF ld.outcome # "ok"
                 THEN [op |-> op, arg |-> arg, outcome |-> ld.outcome,
                       result |-> <<>>, scanned |-> ld.scanned]
                 ELSE [op |-> op, arg |-> arg, outcome |-> lookup.outcome,
                       result |-> lookup.result, scanned |-> ld.scanned]
    /\ UNCHANGED <<file, sortwh, docVars, sortVars, dsVars, replayVars>>

Events ==
    LET ld == load_events(events, loaded, file, sortwh)
    IN WhCallStep("events", None, ld, [outcome |-> "ok", result |-> ld.events])

FindEditEvents ==
    \E snapid \in SnapIds :
        LET ld == load_events(events, loaded, file, sortwh)
        IN WhCallStep("find_edit_events_with_snapid", snapid, ld,
                      [outcome |-> "ok",
                       result |-> find_edit_events_with_snapid(ld.events, snapid)])

FindSingleEditEvent ==
    \E snapid \in SnapIds :
        LET ld == load_events(events, loaded, file, sortwh)
        IN WhCallStep("find_single_edit_event_with_snapid", snapid, ld,
                      find_single_edit_event_with_snapid(ld.events, snapid))

FindSubmissionEvent ==
    \E snapid \in SnapIds :
        LET ld == load_events(events, loaded, file, sortwh)
        IN WhCallStep("find_submission_event", snapid, ld,
                      find_event_with_snapid(ld.events, "Submission", snapid))

FindCompilationEvent ==
    \E snapid \in SnapIds :
        LET ld == load_events(events, loaded, file, sortwh)
        IN WhCallStep("find_compilation_event", snapid, ld,
                      find_event_with_snapid(ld.events, "Compilation", snapid))

FindTestResultsEvent ==
    \E snapid \in SnapIds :
        LET ld == load_events(events, loaded, file, sortwh)
        IN WhCallStep("find_testresults_event", snapid, ld,
                      find_event_with_snapid(ld.events, "TestResults", snapid))

\* ------------------------------------------------------------------------
\* Initial values of the parts a specification leaves alone
\* ------------------------------------------------------------------------
NoWhCall == [op |-> "none", arg |-> None, outcome |-> "ok", result |-> <<>>,
             scanned |-> FALSE]
NoSortCall == [input |-> <<>>, output |-> <<>>, n |-> 0]
NoScanCall == [calls |-> <<>>, outcome |-> "none", line_no |-> 0]

DocIdle == text = <<>> /\ docCall = NoDocCall
WhIdle ==
    /\ file = <<>> /\ sortwh = FALSE /\ events = <<>> /\ loaded = FALSE
    /\ scans = 0 /\ whCall = NoWhCall
SortIdle == evlist = <<>> /\ sortCall = NoSortCall
\* the numbers assignments and students are given
Numbers == {1, 2}

\* a dict from numbers to lists of work histories: its keys, and the list
\* at each key
EmptyIndex == [keys |-> {}, at |-> [n \in Numbers |-> <<>>]]

NoStorage == [backend |-> "dir", dataset_txt |-> <<>>, assignments_txt |-> <<>>,
              students_txt |-> "absent", roster |-> <<>>, history |-> {}]
NoDataset == [outcome |-> "none", assignments |-> <<>>, students |-> <<>>,
              awh |-> EmptyIndex, swh |-> EmptyIndex,
              built |-> [awh |-> EmptyIndex, swh |-> EmptyIndex]]
NoDsCall == [op |-> "none", student |-> 0, assignment |-> 0, outcome |-> "ok",
             result |-> <<>>]
NoReplay == [last_text |-> NoText, first_fulltext |-> NoText,
             outcome |-> "running", edits |-> 0, first |-> NoText,
             step |-> [type |-> "none", text |-> <<>>, pre |-> <<>>]]

DsIdle ==
    /\ props = <<>> /\ scanCall = NoScanCall
    /\ storage = NoStorage /\ dataset = NoDataset /\ dsCall = NoDsCall
ReplayIdle == replay = NoReplay

\* ------------------------------------------------------------------------
\* The TextDocument specification: a new document and any sequence of calls
\* ------------------------------------------------------------------------
Init == DocIdle /\ WhIdle /\ SortIdle /\ DsIdle /\ ReplayIdle

Next == InsertAt \/ DeleteAt \/ SetText \/ GetNumLines \/ GetLine

Spec == Init /\ [][Next]_vars

\* ------------------------------------------------------------------------
\* Dataset: storage backends, _read and the work-history accessors
\* ------------------------------------------------------------------------

\* isfile("students.txt") of each backend. os.path.isfile answers for any
\* path; ZipFile.getinfo raises KeyError for a name the archive lacks, and
\* an entry of size 0 is not a file
isfile_students(sto) ==
    IF sto.backend = "dir"
    THEN [raised |-> None, result |-> sto.students_txt # "absent"]
    ELSE IF sto.students_txt = "absent"
         THEN [raised |-> "KeyError", result |-> FALSE]
         ELSE [raised |-> None, result |-> sto.students_txt = "present"]

\* dict.setdefault(k, []): the key is added when it is missing
setdefault(idx, k) == [idx EXCEPT !.keys = @ \cup {k}]

\* dict.setdefault(k, []).append(wh)
setdefault_append(idx, k, wh) ==
    [keys |-> idx.keys \cup {k},
     at |-> [idx.at EXCEPT ![k] = Append(@, wh)]]

\* the history files history/<assignment>/<student>.txt in the order _read
\* visits them: directories by number, files by student number
RECURSIVE hist_files(_)
hist_files(h) ==
    IF h = {}
    THEN <<>>
    ELSE LET f == CHOOSE x \in h :
                    \A y \in h : x[1] < y[1] \/ (x[1] = y[1] /\ x[2] <= y[2])
         IN <<f>> \o hist_files(h \ {f})

\* the loop of _read over the history files, from file i on
RECURSIVE read_history(_, _, _)
read_history(files, i, d) ==
    IF i > Len(files)
    THEN d
    ELSE LET assign_num == files[i][1]
             student_num == files[i][2]
             known == \E k \in 1..Len(d.students) :
                          d.students[k].number = student_num
             students == IF known THEN d.students
                         ELSE Append(d.students, [number |-> student_num,
                                                  instructor |-> FALSE])
             wh == [assign_num |-> assign_num, student_num |-> student_num]
         IN read_history(files, i + 1,
                [d EXCEPT !.students = students,
                          !.awh = setdefault_append(@, assign_num, wh),
                          !.swh = setdefault_append(@, student_num, wh)])

assign_th == [t \in {"unknown", "assignment"} |->
                 IF t = "unknown" THEN "ignore" ELSE "add_assignment"]

students_th == [t \in {"unknown", "student"} |->
                   IF t = "unknown" THEN "ignore" ELSE "add_student"]

\* ------------------------------------------------------------------------
\* The applicator specification: a new document and any sequence of edits
\* applied to it, or of insert_at / delete_at calls
\* ------------------------------------------------------------------------
ApplyNext == ApplyEdit

ApplySpec == Init /\ [][ApplyNext]_vars

FailingCalls ==
    {"insert_at", "delete_at", "apply_insert", "apply_delete",
     "apply_fulltext", "apply_unsupported"}

\* C14: when apply, insert_at or delete_at fails, the text of the document
\* is the text it held before the call.
C14_FailedEditsAtomic ==
    (docCall.op \in FailingCalls /\ docCall.outcome # "ok") =>
        text = docCall.pre

\* a delete applied to a text of two characters or more has failed with a
\* mismatch
C14_Witness ==
    /\ docCall.op = "apply_delete"
    /\ docCall.outcome = "Delete mismatch"
    /\ Len(docCall.pre) >= 2
    /\ Len(docCall.arg) >= 1

\* ------------------------------------------------------------------------
\* The replay specification: a new document, a new applicator and the Edit
\* events of one work history, replayed in order
\* ------------------------------------------------------------------------
ReplayNext == ReplayEdit

ReplaySpec == Init /\ [][ReplayNext]_vars

\* a and b are equal or differ only by one trailing newline
TextsMatch(a, b) ==
    \/ a = b
    \/ Len(a) = Len(b) + 1 /\ a[Len(a)] = NL /\ DropLast(a) = b
    \/ Len(b) = Len(a) + 1 /\ b[Len(b)] = NL /\ DropLast(b) = a

\* C13: for a fulltext Edit that is not the first Edit applied, the replay
\* raises a synchronization fault exactly when the fulltext's text matches
\* neither the document text just before the Edit nor the text of the first
\* fulltext Edit of the sequence.
C13_SyncFaultIff ==
    (replay.step.type = "fulltext" /\ replay.edits >= 2) =>
        ((replay.outcome = "Fulltext not in sync") <=>
            (/\ ~TextsMatch(replay.step.text, replay.step.pre)
             /\ ~TextsMatch(replay.step.text, replay.first.v)))

\* ------------------------------------------------------------------------
\* The WorkHistory specification: a history over any file of a few lines,
\* with or without sorting, and any sequence of calls
\* ------------------------------------------------------------------------
NumTs(n) == [kind |-> "num", n |-> n, micro |-> 0]
StrTs(sec, micro) == [kind |-> "str", n |-> sec, micro |-> micro]
BadTs == [kind |-> "badstr", n |-> 0, micro |-> 0]
NoTs == [kind |-> "missing", n |-> 0, micro |-> 0]

\* the value of an event record: its ts, editid (0: none), snapids (given
\* or not) and snapid ("": none)
Value(ts, editid, has_snapids, snapids, snapid) ==
    [ts |-> ts, has_editid |-> editid # 0, editid |-> editid,
     has_snapids |-> has_snapids, snapids |-> snapids,
     has_snapid |-> snapid # "", snapid |-> snapid]

Record(tag, value) == Line(TRUE, TRUE, tag, TRUE, value)

HistoryLines ==
    { Record("edit", Value(NumTs(1), 2, TRUE, <<"s1">>, "")),
      Record("edit", Value(NumTs(2), 0, TRUE, <<"s1", "s2">>, "")),
      Record("edit", Value(NumTs(3), 1, FALSE, <<>>, "")),
      Record("submission", Value(StrTs(0, 2000), 0, TRUE, <<"s1">>, "s1")),
      Record("compilation", Value(NumTs(2), 0, FALSE, <<>>, "s2")),
      Record("testresults", Value(NumTs(3), 0, FALSE, <<>>, "")),
      Record("comment", Value(NoTs, 0, FALSE, <<>>, "")),
      Record("edit", Value(NoTs, 1, FALSE, <<>>, "")),
      Record("submission", Value(BadTs, 0, FALSE, <<>>, "s1")),
      Line(FALSE, FALSE, "", TRUE, Value(NumTs(1), 0, FALSE, <<>>, "")) }

WhInit ==
    /\ DocIdle /\ SortIdle /\ DsIdle /\ ReplayIdle
    /\ file \in UNION {[1..n -> HistoryLines] : n \in 0..MaxLines}
    /\ sortwh \in BOOLEAN
    /\ events = <<>>
    /\ loaded = FALSE
    /\ scans = 0
    /\ whCall = NoWhCall

WhNext ==
    \/ Events
    \/ FindEditEvents
    \/ FindSingleEditEvent
    \/ FindSubmissionEvent
    \/ FindCompilationEvent
    \/ FindTestResultsEvent

WhSpec == WhInit /\ [][WhNext]_vars

\* the lines of f that are records of one of the four event tags
EventRecords(f) ==
    {i \in 1..Len(f) :
        /\ f[i].has_tag /\ f[i].tag_is_str /\ f[i].has_value
        /\ f[i].tag \in {"edit", "submission", "compilation", "testresults"}}

\* the file can be read to its end: no malformed line, and every event
\* record has a ts that is a number or a well-formed string
Readable(f) ==
    /\ \A i \in 1..Len(f) : f[i].has_tag /\ f[i].tag_is_str /\ f[i].has_value
    /\ \A i \in EventRecords(f) : f[i].value.ts.kind \in {"num", "str"}

\* the event of record i of a readable file
EventOfRecord(f, i) == construct(wh_th[f[i].tag], f[i].value).evt

Occurrences(l, e) == Cardinality({k \in 1..Len(l) : l[k] = e})

\* C5: a new WorkHistory has read nothing; a call on a history that is not
\* loaded scans the file; once loaded, no call scans it again, the list and
\* the flag stay as they are, and events() returns that list.
C5_LoadOnce ==
    /\ []((whCall.op = "none") <=> (scans = 0))
    /\ [](scans = 0 => (events = <<>> /\ ~loaded))
    /\ [][/\ ~loaded => (scans' = scans + 1 /\ whCall'.scanned)
          /\ loaded => /\ scans' = scans
                       /\ ~whCall'.scanned
                       /\ loaded'
                       /\ events' = events
                       /\ whCall'.op = "events" =>
                              (whCall'.outcome = "ok" /\ whCall'.result = events)
         ]_vars

\* events() called again on a loaded history of two events
C5_Witness ==
    /\ loaded
    /\ scans = 1
    /\ whCall.op = "events"
    /\ ~whCall.scanned
    /\ Len(whCall.result) = 2

\* C6: the event list is empty, or the file is readable and the list holds
\* exactly one event for each of its event records.
C6_EventsReflectFile ==
    \/ events = <<>>
    \/ /\ Readable(file)
       /\ Len(events) = Cardinality(EventRecords(file))
       /\ \A i \in EventRecords(file) :
             Occurrences(events, EventOfRecord(file, i))
                = Cardinality({j \in EventRecords(file) :
                                  EventOfRecord(file, j) = EventOfRecord(file, i)})

\* C9: on a loaded history, find_edit_events_with_snapid(id) is the list of
\* the Edits whose snapids contain id, in event order, and
\* find_single_edit_event_with_snapid(id) is None for no such Edit, the Edit
\* for one, and the 'multiple edit events' error for more.
C9_FindBySnapid ==
    LET Matches(e) ==
            /\ e.cls = "Edit"
            /\ e.has_snapids
            /\ \E k \in 1..Len(e.snapids) : e.snapids[k] = whCall.arg
        m == SelectSeq(events, Matches)
    IN /\ (whCall.op = "find_edit_events_with_snapid" /\ loaded) =>
              (whCall.outcome = "ok" /\ whCall.result = m)
       /\ (whCall.op = "find_single_edit_event_with_snapid" /\ loaded) =>
              /\ Len(m) = 0 => (whCall.outcome = "ok" /\ whCall.result = <<>>)
              /\ Len(m) = 1 => (whCall.outcome = "ok" /\ whCall.result = m)
              /\ Len(m) > 1 => whCall.outcome = "multiple edit events"

\* a single-edit lookup that two Edits match
C9_Witness ==
    /\ loaded
    /\ whCall.op = "find_single_edit_event_with_snapid"
    /\ whCall.outcome = "multiple edit events"
    /\ Len(events) = 2

\* ------------------------------------------------------------------------
\* The scanner specification: Dataset._read scanning dataset.txt, whose
\* callbacks set dataset properties
\* ------------------------------------------------------------------------

\* the TagHandler of dataset.txt
ds_th ==
    [t \in {"unknown", "psversion", "name", "contact", "email", "courseurl"} |->
        IF t = "unknown" THEN "ignore" ELSE "setprop"]

DatasetLines ==
    { Record("psversion", "0.1"),
      Record("name", "A"),
      Record("name", "B"),
      Record("license", "x"),
      Record("unknown", "u"),
      Line(FALSE, FALSE, "", TRUE, "v"),
      Line(TRUE, TRUE, "name", FALSE, ""),
      Line(TRUE, FALSE, "7", TRUE, "v") }

ScanInit ==
    /\ DocIdle /\ SortIdle /\ ReplayIdle
    /\ storage = NoStorage /\ dataset = NoDataset /\ dsCall = NoDsCall
    /\ file \in UNION {[1..n -> DatasetLines] : n \in 0..MaxDsLines}
    /\ sortwh = FALSE /\ events = <<>> /\ loaded = FALSE /\ scans = 0
    /\ whCall = NoWhCall
    /\ props = <<>>
    /\ scanCall = NoScanCall

\* the scan of dataset.txt in Dataset._read
ReadDatasetFile ==
    LET r == scan(file, ds_th, [events |-> <<>>, props |-> props])
    IN /\ scanCall.outcome = "none"
       /\ props' = r.st.props
       /\ scanCall' = [calls |-> r.calls, outcome |-> r.outcome,
                       line_no |-> r.line_no]
       /\ UNCHANGED <<docVars, whVars, sortVars, storage, dataset, dsCall, replayVars>>

ScanNext == ReadDatasetFile

ScanSpec == ScanInit /\ [][ScanNext]_vars

Malformed(l) == ~l.has_tag \/ ~l.has_value \/ ~l.tag_is_str

\* the number of the first malformed line of f, or 0
FirstMalformed(f) ==
    IF \E i \in 1..Len(f) : Malformed(f[i])
    THEN CHOOSE i \in 1..Len(f) :
            Malformed(f[i]) /\ \A j \in 1..(i - 1) : ~Malformed(f[j])
    ELSE 0

RegisteredTags == {"psversion", "name", "contact", "email", "courseurl"}

\* the one handler call line i is due
DueCall(f, i) ==
    [line |-> i, tag |-> f[i].tag,
     handler |-> IF f[i].tag \in RegisteredTags THEN "setprop" ELSE "ignore"]

\* C10: with k the first malformed line, the handler calls are one for each
\* of lines 1..k-1 in order and the scan fails with 'Invalid data' at line
\* k; with no malformed line every line has its one call, to the handler of
\* its tag or to the 'unknown' handler.
C10_ScanInOrder ==
    scanCall.outcome # "none" =>
        LET k == FirstMalformed(file)
        IN IF k > 0
           THEN /\ scanCall.outcome = "Invalid data"
                /\ scanCall.line_no = k
                /\ scanCall.calls = [i \in 1..(k - 1) |-> DueCall(file, i)]
           ELSE /\ scanCall.outcome = "ok"
                /\ scanCall.calls = [i \in 1..Len(file) |-> DueCall(file, i)]

\* a scan that called a registered and the 'unknown' handler and then
\* failed at line 3
C10_Witness ==
    /\ scanCall.outcome = "Invalid data"
    /\ scanCall.line_no = 3
    /\ Len(scanCall.calls) = 2
    /\ scanCall.calls[1].handler = "setprop"
    /\ scanCall.calls[2].handler = "ignore"

\* ------------------------------------------------------------------------
\* The ordering specification: the sort of _read_work_history applied to
\* any list of events, and applied again to its own result
\* ------------------------------------------------------------------------

\* an event with the given editid (0: none) and timestamp
EventOf(editid, ts) ==
    [cls |-> "Edit", ts |-> ts, has_editid |-> editid # 0, editid |-> editid,
     has_snapids |-> FALSE, snapids |-> <<>>, has_snapid |-> FALSE, snapid |-> ""]

SortableEvents == {EventOf(e, t) : e \in 0..MaxId, t \in 1..MaxTs}

SortInit ==
    /\ DocIdle /\ WhIdle /\ DsIdle /\ ReplayIdle
    /\ evlist \in UNION {[1..n -> SortableEvents] : n \in 0..MaxEvents}
    /\ sortCall = NoSortCall

SortEvents ==
    /\ sortCall.n < MaxSorts
    /\ evlist' = sort_events(evlist)
    /\ sortCall' = [input |-> evlist, output |-> sort_events(evlist),
                    n |-> sortCall.n + 1]
    /\ UNCHANGED <<docVars, whVars, dsVars, replayVars>>

SortNext == SortEvents

SortSpec == SortInit /\ [][SortNext]_vars

\* the stated rule holds between every two events of l, taken in list order
FollowsRule(l) ==
    \A i, j \in 1..Len(l) :
        i < j =>
            IF l[i].has_editid /\ l[j].has_editid /\ l[i].editid # l[j].editid
            THEN l[i].editid < l[j].editid
            ELSE l[i].ts <= l[j].ts

\* every event of l carries an editid, or none does
Uniform(l) ==
    \/ \A i \in 1..Len(l) : l[i].has_editid
    \/ \A i \in 1..Len(l) : ~l[i].has_editid

\* C7 as stated: the sorted list follows the rule for every list, lists
\* that mix events with and without an editid included.
C7_SortedFollowsRule == sortCall.n >= 1 => FollowsRule(evlist)

\* C7 amended: the sorted list follows the rule when every event carries an
\* editid or none does.
C7_SortedFollowsRuleUniform ==
    (sortCall.n >= 1 /\ Uniform(sortCall.input)) => FollowsRule(evlist)

\* [editid=2 ts=1, editid=1 ts=3] has been sorted to [editid=1, editid=2]
C7_Witness ==
    /\ sortCall.n = 1
    /\ sortCall.input = <<EventOf(2, 1), EventOf(1, 3)>>
    /\ evlist = <<EventOf(1, 3), EventOf(2, 1)>>

read(sto) ==
    LET st0 == [events |-> <<>>, props |-> <<>>, assignments |-> <<>>,
                students |-> <<>>]
        r1 == scan(sto.dataset_txt, ds_th, st0)
        r2 == scan(sto.assignments_txt, assign_th, r1.st)
        f == isfile_students(sto)
        r3 == IF f.result THEN scan(sto.roster, students_th, r2.st)
              ELSE [outcome |-> "ok", st |-> r2.st]
        Result(outcome, st) ==
            [NoDataset EXCEPT !.outcome = outcome,
                              !.assignments = st.assignments,
                              !.students = st.students]
        d == IF r1.outcome # "ok" THEN Result(r1.outcome, r1.st)
             ELSE IF r2.outcome # "ok" THEN Result(r2.outcome, r2.st)
             ELSE IF f.raised # None THEN Result(f.raised, r2.st)
             ELSE IF r3.outcome # "ok" THEN Result(r3.outcome, r3.st)
             ELSE IF sto.history # {}
                  THEN read_history(hist_files(sto.history), 1,
                                    Result("ok", r3.st))
                  ELSE Result("ok", r3.st)
    IN [props |-> r1.st.props, dataset |-> d]

AssignmentRecord(n) == Record("assignment", [number |-> n])
StudentRecord(n, instructor) ==
    Record("student", [number |-> n, instructor |-> instructor])

\* students.txt: absent, of size 0, or holding a roster
StudentsFiles ==
    { <<"absent", <<>>>>,
      <<"empty", <<>>>>,
      <<"present", <<StudentRecord(1, FALSE)>>>>,
      <<"present", <<StudentRecord(1, TRUE)>>>>,
      <<"present", <<StudentRecord(2, TRUE)>>>>,
      <<"present", <<StudentRecord(1, TRUE), StudentRecord(2, FALSE)>>>> }

DsInit ==
    /\ DocIdle /\ WhIdle /\ SortIdle /\ ReplayIdle
    /\ props = <<>> /\ scanCall = NoScanCall
    /\ \E backend \in {"dir", "zip"},
          dataset_txt \in {<<Record("psversion", "0.1")>>,
                           <<Line(FALSE, FALSE, "", TRUE, "v")>>},
          assignments_txt \in {<<>>, <<AssignmentRecord(1)>>,
                               <<AssignmentRecord(2)>>,
                               <<AssignmentRecord(1), AssignmentRecord(2)>>},
          sf \in StudentsFiles,
          history \in SUBSET (Numbers \X Numbers) :
        storage = [backend |-> backend, dataset_txt |-> dataset_txt,
                   assignments_txt |-> assignments_txt,
                   students_txt |-> sf[1], roster |-> sf[2],
                   history |-> history]
    /\ dataset = NoDataset
    /\ dsCall = NoDsCall

\* Dataset(path): the constructor runs _read
LoadDataset ==
    /\ dataset.outcome = "none"
    /\ LET r == read(storage)
       IN /\ props' = r.props
          /\ dataset' = [r.dataset EXCEPT
                            !.built = [awh |-> r.dataset.awh,
                                       swh |-> r.dataset.swh]]
    /\ UNCHANGED <<docVars, whVars, sortVars, scanCall, storage, dsCall,
                   replayVars>>

DsCall(op, student, assignment, outcome, result) ==
    [op |-> op, student |-> student, assignment |-> assignment,
     outcome |-> outcome, result |-> result]

WorkHistoriesForAssignment ==
    /\ dataset.outcome = "ok"
    /\ \E i \in 1..Len(dataset.assignments) :
        LET number == dataset.assignments[i]
            awh == setdefault(dataset.awh, number)
        IN /\ dataset' = [dataset EXCEPT !.awh = awh]
           /\ dsCall' = DsCall("work_histories_for_assignment", 0, number,
                               "ok", awh.at[number])
    /\ UNCHANGED <<docVars, whVars, sortVars, props, scanCall, storage,
                   replayVars>>

WorkHistoriesForStudent ==
    /\ dataset.outcome = "ok"
    /\ \E i \in 1..Len(dataset.students) :
        LET number == dataset.students[i].number
            swh == setdefault(dataset.swh, number)
        IN /\ dataset' = [dataset EXCEPT !.swh = swh]
           /\ dsCall' = DsCall("work_histories_for_student", number, 0,
                               "ok", swh.at[number])
    /\ UNCHANGED <<docVars, whVars, sortVars, props, scanCall, storage,
                   replayVars>>

WorkHistoryForStudentAndAssignment ==
    /\ dataset.outcome = "ok"
    /\ \E i \in 1..Len(dataset.students), j \in 1..Len(dataset.assignments) :
        LET student == dataset.students[i].number
            assignment == dataset.assignments[j]
            swh == setdefault(dataset.swh, student)
            student_work_histories == swh.at[student]
            found == SelectSeq(student_work_histories,
                               LAMBDA wh : wh.assign_num = assignment)
        IN /\ dataset' = [dataset EXCEPT !.swh = swh]
           /\ dsCall' =
                IF found # <<>>
                THEN DsCall("work_history_for_student_and_assignment",
                            student, assignment, "ok", <<found[1]>>)
                ELSE DsCall("work_history_for_student_and_assignment",
                            student, assignment, "No work history", <<>>)
    /\ UNCHANGED <<docVars, whVars, sortVars, props, scanCall, storage,
                   replayVars>>

DsNext ==
    \/ LoadDataset
    \/ WorkHistoriesForAssignment
    \/ WorkHistoriesForStudent
    \/ WorkHistoryForStudentAndAssignment

DsSpec == DsInit /\ [][DsNext]_vars

\* the history files of assignment a, and of student n
FilesOfAssignment(a) == {f \in storage.history : f[1] = a}
FilesOfStudent(n) == {f \in storage.history : f[2] = n}

\* C11: after construction no accessor call changes the key set or the
\* lists of either index, and the list accessors return an empty list,
\* never an error, when there is no history.
C11_IndicesReadOnly ==
    dataset.outcome = "ok" =>
        /\ dataset.awh = dataset.built.awh
        /\ dataset.swh = dataset.built.swh
        /\ dsCall.op = "work_histories_for_assignment" =>
                /\ dsCall.outcome = "ok"
                /\ FilesOfAssignment(dsCall.assignment) = {} =>
                        dsCall.result = <<>>
        /\ dsCall.op = "work_histories_for_student" =>
                /\ dsCall.outcome = "ok"
                /\ FilesOfStudent(dsCall.student) = {} => dsCall.result = <<>>

\* the students a dataset without roster holds: one for each student
\* number of the history files, in the order the files are visited
RECURSIVE Synthesized(_, _)
Synthesized(files, seen) ==
    IF files = <<>>
    THEN <<>>
    ELSE IF Head(files)[2] \in seen
         THEN Synthesized(Tail(files), seen)
         ELSE <<[number |-> Head(files)[2], instructor |-> FALSE]>>
              \o Synthesized(Tail(files), seen \cup {Head(files)[2]})

Readable_txt(f) == \A i \in 1..Len(f) : ~Malformed(f[i])

\* C12: a dataset, in a directory or an archive, with dataset.txt and
\* assignments.txt and no students.txt loads: the roster step is skipped
\* and a Student with instructor = false is made for each history file's
\* student number.
C12_StudentsOptional ==
    (/\ dataset.outcome # "none"
     /\ storage.students_txt = "absent"
     /\ Readable_txt(storage.dataset_txt)
     /\ Readable_txt(storage.assignments_txt)) =>
        /\ dataset.outcome = "ok"
        /\ dataset.students = Synthesized(hist_files(storage.history), {})
        /\ \A f \in storage.history :
                /\ f[1] \in dataset.built.awh.keys
                /\ f[2] \in dataset.built.swh.keys

====
